---- MODULE Spec2Model ----
(***************************************************************************)
(* Model of .github/workflows/erstelle_kalender.py: the weekly (Mon-Fri)   *)
(* view computed from the VEVENT components of an ICS calendar.            *)
(*                                                                         *)
(* Time is counted in whole minutes.  A local wall-clock value is the      *)
(* number of minutes since Monday 00:00 (Europe/Vienna) of the target      *)
(* week; an absolute (UTC) instant is the local value minus the zone's     *)
(* UTC offset.  A local date is the day number (Monday = 0).               *)
(* The zone offset is the same for every value of a run (no daylight-     *)
(* saving change between the events of one calendar).                      *)
(* TLA+ strings are ASCII: the badge "Ganzt\"agig" is written "Ganztaegig" *)
(* and the en dash of "HH:MM-HH:MM" is written "-".                        *)
(***************************************************************************)
EXTENDS Integers, Sequences, FiniteSets, TLC

\* cal          the VEVENT components of the parsed calendar, in walk order (line 131)
\* overrides    the RECURRENCE-ID map, keyed by <<uid, rec_id_utc>> (lines 179-187)
\* idx          position of the expansion loop in cal (line 190)
\* week_events  per week day, the list of tiles (line 151)
\* per_day_seen per week day, the set of deduplication keys (line 154)
\* failed       positions of the components whose try block raised (lines 268-270)
\* pc           "overrides", "events", "done"; "split" when
\*              split_event_across_days is exercised on its own
\* call         the arguments of the last split_event_across_days call made on its own
VARIABLES cal, overrides, idx, week_events, per_day_seen, failed, pc, call

vars == <<cal, overrides, idx, week_events, per_day_seen, failed, pc, call>>

(* ------------------------------ bounds -------------------------------- *)

\* longest calendar (number of VEVENT components) the model walks
MaxCal == 2

(* ----------------------------- time helpers --------------------------- *)

\* timedelta(days=1), in minutes
DayMinutes == 1440

\* UTC offset of ZoneInfo("Europe/Vienna") in the target week (CET), minutes
ViennaOffset == 60

\* number of week days shown (range(5))
WeekDayCount == 5

\* H(d, h, m): the local wall-clock value of day d, h:m
H(d, h, m) == d * DayMinutes + h * 60 + m

\* datetime.date() of a local wall-clock value
DateOf(t) == t \div DayMinutes

\* datetime.time() of a local wall-clock value, as minutes since midnight
TimeOf(t) == t % DayMinutes

\* time.min
TimeMin == TimeOf(0)

\* strftime two-digit field
Pad2(n) == IF n < 10 THEN "0" \o ToString(n) ELSE ToString(n)

\* f"{t:%H:%M}"
FmtHM(t) == Pad2(TimeOf(t) \div 60) \o ":" \o Pad2(TimeOf(t) % 60)

\* An ICS date/time value: a DATE (t = local midnight of the day), a naive
\* datetime (t = local wall clock) or a tz-aware datetime (t = UTC instant).
NoVal == [kind |-> "none", t |-> 0]
DateVal(d) == [kind |-> "date", t |-> d * DayMinutes]
NaiveVal(t) == [kind |-> "naive", t |-> t]
UtcVal(t) == [kind |-> "utc", t |-> t - ViennaOffset]

to_utc(dt_raw) ==
    IF dt_raw.kind = "date" THEN dt_raw.t - ViennaOffset
    ELSE IF dt_raw.kind = "naive" THEN dt_raw.t - ViennaOffset
    ELSE dt_raw.t

utc_to_local(dt_utc) == dt_utc + ViennaOffset

(* ------------------------------ components ---------------------------- *)

NoDuration == -1

\* A VEVENT component.  summary "" stands for an absent SUMMARY, dtstart /
\* dtend / recurrence_id NoVal for an absent property, duration NoDuration
\* for an absent DURATION, rrule "" for an absent RRULE.
Comp(uid, summary, status, dtstart, dtend, duration, rrule, exdate, rdate, recurrence_id) ==
    [uid |-> uid, summary |-> summary, status |-> status, dtstart |-> dtstart,
     dtend |-> dtend, duration |-> duration, rrule |-> rrule, exdate |-> exdate,
     rdate |-> rdate, recurrence_id |-> recurrence_id]

is_all_day_component(component) ==
    IF component.dtstart = NoVal THEN FALSE ELSE component.dtstart.kind = "date"

(* ------------------------------ text helpers -------------------------- *)

\* html.escape
html_escape(s) == IF s = "Q&A" THEN "Q&amp;A" ELSE s

\* str.lower
Lower(s) ==
    CASE s = "Review" -> "review"
      [] s = "Standup" -> "standup"
      [] s = "Review (moved)" -> "review (moved)"
      [] s = "Q&amp;A" -> "q&amp;a"
      [] s = "Ohne Titel" -> "ohne titel"
      [] OTHER -> s

\* position of a lower-cased summary in Python's string order
StrRank(s) ==
    CASE s = "ohne titel" -> 1
      [] s = "q&amp;a" -> 2
      [] s = "review" -> 3
      [] s = "review (moved)" -> 4
      [] s = "standup" -> 5
      [] OTHER -> 0

\* str.upper on STATUS
Upper(s) == IF s = "cancelled" THEN "CANCELLED" ELSE s

(* ------------------------------ week window --------------------------- *)

start_of_week_local == H(0, 0, 0)
end_of_week_local == start_of_week_local + H(4, 23, 59)
start_of_week_utc == start_of_week_local - ViennaOffset
end_of_week_utc == end_of_week_local - ViennaOffset
week_days_local == {DateOf(start_of_week_local + i * DayMinutes) : i \in 0 .. WeekDayCount - 1}
valid_day_set == week_days_local

(* ------------------------ split_event_across_days --------------------- *)

AllDayLabel == "Ganztaegig"

\* faulty variant of loop_end_date: DTEND taken as inclusive, the end date is never
\* stepped back
loop_end_date_inclusive(component, start_local, end_local) == DateOf(end_local)

loop_end_date(component, start_local, end_local) ==
    IF \/ is_all_day_component(component) /\ TimeOf(end_local) = TimeMin
       \/ /\ ~is_all_day_component(component)
          /\ TimeOf(end_local) = TimeMin
          /\ DateOf(end_local) > DateOf(start_local)
    THEN DateOf(end_local) - 1
    ELSE DateOf(end_local)

\* faulty variant of time_str: the last day of a timed occurrence is never "Ende:"
time_str_no_ende(component, start_local, end_local, current) ==
    IF is_all_day_component(component) THEN AllDayLabel
    ELSE IF DateOf(start_local) = DateOf(end_local)
         THEN FmtHM(start_local) \o "-" \o FmtHM(end_local)
    ELSE IF current = DateOf(start_local)
         THEN IF TimeOf(end_local) = TimeMin /\ DateOf(end_local) > DateOf(start_local)
              THEN IF TimeOf(start_local) = TimeMin THEN AllDayLabel
                   ELSE FmtHM(start_local) \o "-00:00"
              ELSE "Start: " \o FmtHM(start_local)
    ELSE AllDayLabel

time_str(component, start_local, end_local, current) ==
    IF is_all_day_component(component) THEN AllDayLabel
    ELSE IF DateOf(start_local) = DateOf(end_local)
         THEN FmtHM(start_local) \o "-" \o FmtHM(end_local)
    ELSE IF current = DateOf(start_local)
         THEN IF TimeOf(end_local) = TimeMin /\ DateOf(end_local) > DateOf(start_local)
              THEN IF TimeOf(start_local) = TimeMin THEN AllDayLabel
                   ELSE FmtHM(start_local) \o "-00:00"
              ELSE "Start: " \o FmtHM(start_local)
    ELSE IF current = loop_end_date(component, start_local, end_local)
         THEN IF TimeOf(end_local) > TimeMin THEN "Ende: " \o FmtHM(end_local)
              ELSE AllDayLabel
    ELSE AllDayLabel

\* the dict appended to week_events[current]
Tile(component, start_local, end_local, summary, current) ==
    [summary |-> summary,
     time |-> time_str(component, start_local, end_local, current),
     is_all_day |-> \/ is_all_day_component(component)
                    \/ time_str(component, start_local, end_local, current) = AllDayLabel,
     start_time |-> start_local]

split_event_across_days(events, component, start_local, end_local, summary, valid_days_local) ==
    [d \in DOMAIN events |->
        IF /\ d \in DateOf(start_local) .. loop_end_date(component, start_local, end_local)
           /\ d \in valid_days_local
        THEN Append(events[d], Tile(component, start_local, end_local, summary, d))
        ELSE events[d]]

(* ------------------------------- add_unique --------------------------- *)

\* The aggregation state threaded through one run: week_events, per_day_seen
\* and whether the statement just executed raised.
AggState(events, seen, err) == [we |-> events, seen |-> seen, err |-> err]

SetMin(S) == CHOOSE x \in S : \A y \in S : x <= y

\* last date add_unique's while loop visits
add_unique_last(start_local, end_local) ==
    IF TimeOf(end_local) = TimeMin /\ DateOf(end_local) > DateOf(start_local)
    THEN DateOf(end_local) - 1
    ELSE DateOf(end_local)

key_tuple(start_utc, summary) == <<Lower(summary), start_utc>>

\* The dates of cur..last whose per_day_seen entry does not hold the key:
\* the while loop takes its else branch at the first of them.
UnseenDates(seen, start_utc, end_utc, summary) ==
    {c \in DateOf(utc_to_local(start_utc)) ..
           add_unique_last(utc_to_local(start_utc), utc_to_local(end_utc)) :
        ~(c \in DOMAIN seen /\ key_tuple(start_utc, summary) \in seen[c])}

\* per_day_seen[cur].add(key_tuple) raises KeyError when cur is no week day;
\* the tiles split_event_across_days appended before it stay.
add_unique(st, component, start_utc, end_utc, summary) ==
    LET unseen == UnseenDates(st.seen, start_utc, end_utc, summary)
        cur == SetMin(unseen)
        events2 == split_event_across_days(st.we, component, utc_to_local(start_utc),
                                           utc_to_local(end_utc), summary, valid_day_set)
    IN  IF unseen = {} THEN st
        ELSE IF cur \in DOMAIN st.seen
             THEN AggState(events2,
                           [st.seen EXCEPT ![cur] = @ \cup {key_tuple(start_utc, summary)}],
                           FALSE)
             ELSE AggState(events2, st.seen, TRUE)

(* ------------------------------- overrides ---------------------------- *)

\* index of the last component of c that sets overrides[uid][rec_id_utc]
LastOverride(c, k) ==
    CHOOSE i \in 1 .. Len(c) :
        /\ c[i].recurrence_id # NoVal /\ c[i].uid # ""
        /\ <<c[i].uid, to_utc(c[i].recurrence_id)>> = k
        /\ \A j \in i + 1 .. Len(c) :
              ~(/\ c[j].recurrence_id # NoVal /\ c[j].uid # ""
                /\ <<c[j].uid, to_utc(c[j].recurrence_id)>> = k)

\* the RECURRENCE-ID pass: a map from <<uid, rec_id_utc>> to the component
collect_overrides(c) ==
    LET keys == {<<c[i].uid, to_utc(c[i].recurrence_id)>> :
                    i \in {j \in 1 .. Len(c) : c[j].recurrence_id # NoVal /\ c[j].uid # ""}}
    IN  [k \in keys |-> c[LastOverride(c, k)]]

(* --------------------------- rrule expansion -------------------------- *)

RuleParses(rrule) == rrule \in {"FREQ=DAILY", "FREQ=WEEKLY", "FREQ=DAILY;COUNT=2"}

RulePeriod(rrule) == IF rrule = "FREQ=WEEKLY" THEN 7 * DayMinutes ELSE DayMinutes

\* the occurrence numbers k (instant dtstart + k * period) the rule allows
RuleAllows(rrule, k) == IF rrule = "FREQ=DAILY;COUNT=2" THEN k < 2 ELSE TRUE

\* rule.between(search_start, search_end, inc=True), as occurrence numbers
BetweenNumbers(rrule, dtstart, search_start, search_end) ==
    IF search_end < dtstart THEN {}
    ELSE {k \in 0 .. ((search_end - dtstart) \div RulePeriod(rrule)) :
             /\ RuleAllows(rrule, k)
             /\ dtstart + k * RulePeriod(rrule) >= search_start
             /\ dtstart + k * RulePeriod(rrule) <= search_end}

RECURSIVE SortedSeq(_)
SortedSeq(S) == IF S = {} THEN <<>> ELSE <<SetMin(S)>> \o SortedSeq(S \ {SetMin(S)})

\* the instants the RRULE branch iterates over, ascending
rule_between(rrule, dtstart, duration) ==
    LET pad == IF duration > 0 THEN duration ELSE 0
    IN  SortedSeq({dtstart + k * RulePeriod(rrule) :
                      k \in BetweenNumbers(rrule, dtstart, start_of_week_utc - pad,
                                           end_of_week_utc)})

(* ---------------------------- one VEVENT ------------------------------ *)

\* end of a component whose DTSTART is present
comp_end_utc(component) ==
    IF component.dtend = NoVal /\ component.duration # NoDuration
    THEN to_utc(component.dtstart) + component.duration
    ELSE to_utc(IF component.dtend # NoVal THEN component.dtend ELSE component.dtstart)

exdates_utc(component) == {to_utc(d) : d \in component.exdate}

summary_str(component) ==
    html_escape(IF component.summary # "" THEN component.summary ELSE "Ohne Titel")

\* One step of the try block: a call of add_unique, or a statement that raises.
CallOf(component, start_utc, end_utc, summary) ==
    [raises |-> FALSE, comp |-> component, start_utc |-> start_utc,
     end_utc |-> end_utc, summary |-> summary]
Raise == [raises |-> TRUE]

eff_comp(component, ov, occ_start_utc) ==
    IF <<component.uid, occ_start_utc>> \in DOMAIN ov
    THEN ov[<<component.uid, occ_start_utc>>]
    ELSE component

\* the body of "for occ_start_utc in rule.between(...)" for one instant
rrule_call(component, ov, occ_start_utc) ==
    LET eff == eff_comp(component, ov, occ_start_utc)
    IN  IF occ_start_utc \in exdates_utc(component) THEN <<>>
        ELSE IF eff.dtstart = NoVal THEN <<Raise>>
        ELSE <<CallOf(eff, to_utc(eff.dtstart), comp_end_utc(eff), summary_str(eff))>>

RECURSIVE FlatMap(_, _, _)
FlatMap(component, ov, occs) ==
    IF occs = <<>> THEN <<>>
    ELSE rrule_call(component, ov, Head(occs)) \o FlatMap(component, ov, Tail(occs))

rrule_calls(component, ov) ==
    IF component.rrule = ""
    THEN <<CallOf(component, to_utc(component.dtstart), comp_end_utc(component),
                  summary_str(component))>>
    ELSE IF ~RuleParses(component.rrule) THEN <<Raise>>
    ELSE FlatMap(component, ov,
                 rule_between(component.rrule, to_utc(component.dtstart),
                              comp_end_utc(component) - to_utc(component.dtstart)))

RECURSIVE rdate_calls(_, _)
rdate_calls(component, rdates) ==
    IF rdates = <<>> THEN <<>>
    ELSE (IF to_utc(Head(rdates)) \in exdates_utc(component) THEN <<>>
          ELSE <<CallOf(component, to_utc(Head(rdates)),
                        to_utc(Head(rdates)) + (comp_end_utc(component) - to_utc(component.dtstart)),
                        summary_str(component))>>)
         \o rdate_calls(component, Tail(rdates))

\* the statements of the try block that change state or raise, in order
try_block(component, ov) ==
    IF Upper(component.status) = "CANCELLED" THEN <<>>
    ELSE IF component.dtstart = NoVal THEN <<Raise>>
    ELSE rrule_calls(component, ov) \o rdate_calls(component, component.rdate)

\* runs the statements until one raises
RECURSIVE run_calls(_, _)
run_calls(st, calls) ==
    IF calls = <<>> \/ st.err THEN st
    ELSE IF Head(calls).raises THEN AggState(st.we, st.seen, TRUE)
    ELSE run_calls(add_unique(st, Head(calls).comp, Head(calls).start_utc,
                              Head(calls).end_utc, Head(calls).summary),
                   Tail(calls))

\* one iteration of "for component in cal.walk('VEVENT')"
process_component(st, component, ov) ==
    IF component.recurrence_id # NoVal THEN AggState(st.we, st.seen, FALSE)
    ELSE run_calls(AggState(st.we, st.seen, FALSE), try_block(component, ov))

(* --------------------------------- sort ------------------------------- *)

\* faulty variant of sort_key: the all-day flag is not part of the key
sort_key_no_flag(ev) == <<0, ev.start_time, StrRank(Lower(ev.summary))>>

\* key=lambda x: (not x["is_all_day"], x["start_time"], x["summary"].lower())
sort_key(ev) ==
    <<IF ev.is_all_day THEN 0 ELSE 1, ev.start_time, StrRank(Lower(ev.summary))>>

KeyLess(a, b) ==
    \/ a[1] < b[1]
    \/ a[1] = b[1] /\ a[2] < b[2]
    \/ a[1] = b[1] /\ a[2] = b[2] /\ a[3] < b[3]

\* stable insertion: after every element whose key is not greater
RECURSIVE InsertSorted(_, _)
InsertSorted(s, ev) ==
    IF s = <<>> THEN <<ev>>
    ELSE IF KeyLess(sort_key(ev), sort_key(Head(s))) THEN <<ev>> \o s
    ELSE <<Head(s)>> \o InsertSorted(Tail(s), ev)

RECURSIVE SortFrom(_, _)
SortFrom(acc, s) == IF s = <<>> THEN acc ELSE SortFrom(InsertSorted(acc, Head(s)), Tail(s))

\* list.sort(key=...): stable
sort_events(s) == SortFrom(<<>>, s)

(* ------------------------------ the feed ------------------------------ *)

\* single timed events
EvReviewShort == Comp("a", "Review", "", NaiveVal(H(0, 10, 0)), NaiveVal(H(0, 10, 15)),
                      NoDuration, "", {}, <<>>, NoVal)
EvReviewUtc == Comp("b", "review", "", UtcVal(H(0, 10, 0)), UtcVal(H(0, 11, 0)),
                    NoDuration, "", {}, <<>>, NoVal)
EvReviewTwoDays == Comp("c", "Review", "", NaiveVal(H(0, 10, 0)), NaiveVal(H(1, 12, 0)),
                        NoDuration, "", {}, <<>>, NoVal)
EvEvening == Comp("d", "Standup", "", NaiveVal(H(3, 20, 0)), NoVal,
                  240, "", {}, <<>>, NoVal)
EvFromSunday == Comp("e", "Review", "", NaiveVal(H(-1, 20, 0)), NaiveVal(H(0, 10, 0)),
                     NoDuration, "", {}, <<>>, NoVal)
EvMidnights == Comp("f", "Standup", "", NaiveVal(H(0, 0, 0)), NaiveVal(H(2, 0, 0)),
                    NoDuration, "", {}, <<>>, NoVal)
EvNoEnd == Comp("g", "Review", "", NaiveVal(H(1, 10, 0)), NoVal,
                NoDuration, "", {}, <<>>, NoVal)
EvIntoSaturday == Comp("h", "Standup", "CONFIRMED", UtcVal(H(4, 22, 0)), UtcVal(H(5, 2, 0)),
                       NoDuration, "", {}, <<>>, NoVal)
\* all-day events
EvConference == Comp("i", "Q&A", "", DateVal(0), DateVal(3),
                     NoDuration, "", {}, <<>>, NoVal)
EvAllDayNoEnd == Comp("j", "Standup", "", DateVal(0), NoVal,
                      NoDuration, "", {}, <<>>, NoVal)
EvAllDayTimedExtra == Comp("k", "Review", "", DateVal(1), DateVal(2),
                           NoDuration, "", {}, <<NaiveVal(H(2, 10, 0))>>, NoVal)
EvUntitled == Comp("v", "", "", DateVal(2), DateVal(3),
                   NoDuration, "", {}, <<>>, NoVal)
\* recurring events
EvStandup == Comp("l", "Standup", "", NaiveVal(H(0, 10, 0)), NaiveVal(H(0, 10, 15)),
                  NoDuration, "FREQ=DAILY", {NaiveVal(H(2, 10, 0))}, <<>>, NoVal)
EvStandupOld == Comp("m", "Standup", "", NaiveVal(H(-7, 10, 0)), NaiveVal(H(-7, 10, 15)),
                     NoDuration, "FREQ=DAILY", {UtcVal(H(2, 10, 0))}, <<>>, NoVal)
EvReviewDaily == Comp("u1", "Review", "", NaiveVal(H(0, 9, 0)), NaiveVal(H(0, 9, 30)),
                      NoDuration, "FREQ=DAILY", {}, <<>>, NoVal)
EvTwice == Comp("o", "Review", "", NaiveVal(H(2, 16, 0)), NoVal,
                60, "FREQ=DAILY;COUNT=2", {}, <<>>, NoVal)
EvNightly == Comp("y", "Standup", "", NaiveVal(H(0, 22, 0)), NoVal,
                  240, "FREQ=DAILY", {}, <<>>, NoVal)
EvWeekly == Comp("w", "Q&A", "", UtcVal(H(-6, 15, 0)), UtcVal(H(-6, 16, 0)),
                 NoDuration, "FREQ=WEEKLY", {}, <<>>, NoVal)
EvBadRule == Comp("p", "Standup", "", NaiveVal(H(0, 10, 0)), NaiveVal(H(0, 10, 15)),
                  NoDuration, "FREQ=FOO", {}, <<>>, NoVal)
\* events with RDATE
EvSundayExtra == Comp("q", "Review", "", NaiveVal(H(-1, 10, 0)), NaiveVal(H(-1, 11, 0)),
                      NoDuration, "", {}, <<NaiveVal(H(1, 10, 0))>>, NoVal)
EvExtras == Comp("r", "Review", "", NaiveVal(H(0, 10, 0)), NaiveVal(H(0, 11, 0)),
                 NoDuration, "", {UtcVal(H(3, 10, 0))},
                 <<NaiveVal(H(2, 10, 0)), NaiveVal(H(3, 10, 0))>>, NoVal)
EvOwnStartExtra == Comp("s", "Review", "", NaiveVal(H(0, 10, 0)), NaiveVal(H(1, 12, 0)),
                        NoDuration, "", {}, <<NaiveVal(H(0, 10, 0))>>, NoVal)
\* defective and cancelled events
EvNoStart == Comp("t", "Standup", "", NoVal, NoVal,
                  NoDuration, "", {}, <<>>, NoVal)
EvCancelled == Comp("u", "Review", "cancelled", NaiveVal(H(0, 10, 0)), NaiveVal(H(0, 10, 15)),
                    NoDuration, "", {}, <<>>, NoVal)
\* override instances (RECURRENCE-ID present)
OvMoved == Comp("u1", "Review (moved)", "", NaiveVal(H(1, 14, 0)), NaiveVal(H(1, 14, 30)),
                NoDuration, "", {}, <<>>, NaiveVal(H(1, 9, 0)))
OvNoUid == Comp("", "Review (moved)", "", NaiveVal(H(2, 14, 0)), NaiveVal(H(2, 14, 30)),
                NoDuration, "", {}, <<>>, UtcVal(H(2, 9, 0)))

\* the components cal.walk("VEVENT") may yield
Components ==
    {EvReviewShort, EvReviewUtc, EvReviewTwoDays, EvEvening, EvFromSunday, EvMidnights,
     EvNoEnd, EvIntoSaturday, EvConference, EvAllDayNoEnd, EvAllDayTimedExtra, EvUntitled,
     EvStandup, EvStandupOld, EvReviewDaily, EvTwice, EvNightly, EvWeekly, EvBadRule,
     EvSundayExtra, EvExtras, EvOwnStartExtra, EvNoStart, EvCancelled, OvMoved, OvNoUid}

Calendars == UNION {[1 .. n -> Components] : n \in 0 .. MaxCal}

(* ------------------------------ the run ------------------------------- *)

\* the whole expansion loop over the components c, from state st
RECURSIVE walk_all(_, _, _)
walk_all(st, c, ov) ==
    IF c = <<>> THEN st
    ELSE walk_all(process_component(AggState(st.we, st.seen, FALSE), Head(c), ov), Tail(c), ov)

\* the sorted per-day lists the HTML loop renders for the calendar c
final_week(c) ==
    LET st == walk_all(AggState([d \in week_days_local |-> <<>>],
                                [d \in week_days_local |-> {}], FALSE),
                       c, collect_overrides(c))
    IN  [d \in week_days_local |-> sort_events(st.we[d])]

NoCall == [component |-> EvNoStart, start_local |-> 0, end_local |-> 0, made |-> FALSE]

EmptyWeek == [d \in week_days_local |-> <<>>]
EmptySeen == [d \in week_days_local |-> {}]

Init ==
    /\ cal \in Calendars
    /\ overrides = << >>
    /\ idx = 1
    /\ week_events = EmptyWeek
    /\ per_day_seen = EmptySeen
    /\ failed = {}
    /\ pc = "overrides"
    /\ call = NoCall

\* the RECURRENCE-ID pass over cal.walk("VEVENT")
ScanOverrides ==
    /\ pc = "overrides"
    /\ overrides' = collect_overrides(cal)
    /\ pc' = "events"
    /\ UNCHANGED <<cal, idx, week_events, per_day_seen, failed, call>>

\* one iteration of the expansion loop
WalkEvent ==
    /\ pc = "events"
    /\ idx <= Len(cal)
    /\ LET st == process_component(AggState(week_events, per_day_seen, FALSE), cal[idx], overrides)
       IN  /\ week_events' = st.we
           /\ per_day_seen' = st.seen
           /\ failed' = IF st.err THEN failed \cup {idx} ELSE failed
    /\ idx' = idx + 1
    /\ UNCHANGED <<cal, overrides, pc, call>>

\* the per-day sort of the HTML loop
Render ==
    /\ pc = "events"
    /\ idx > Len(cal)
    /\ week_events' = [d \in DOMAIN week_events |-> sort_events(week_events[d])]
    /\ pc' = "done"
    /\ UNCHANGED <<cal, overrides, idx, per_day_seen, failed, call>>

Next == ScanOverrides \/ WalkEvent \/ Render

Spec == Init /\ [][Next]_vars

(* --------------- split_event_across_days on its own ------------------- *)

\* local wall-clock values handed to split_event_across_days
SplitClock == {H(0, 0, 0), H(0, 10, 0), H(0, 20, 15)}
SplitTimes == {d * DayMinutes + c : d \in -1 .. 5, c \in SplitClock}
SplitComponents == {EvReviewShort, EvConference}

SplitInit ==
    /\ cal = << >>
    /\ overrides = << >>
    /\ idx = 1
    /\ week_events = EmptyWeek
    /\ per_day_seen = EmptySeen
    /\ failed = {}
    /\ pc = "split"
    /\ call = NoCall

SplitCall ==
    /\ pc = "split"
    /\ ~call.made
    /\ \E component \in SplitComponents, start_local \in SplitTimes, end_local \in SplitTimes :
          /\ week_events' = split_event_across_days(week_events, component, start_local,
                                                    end_local, summary_str(component),
                                                    valid_day_set)
          /\ call' = [component |-> component, start_local |-> start_local,
                      end_local |-> end_local, made |-> TRUE]
    /\ UNCHANGED <<cal, overrides, idx, per_day_seen, failed, pc>>

\* a fresh week_events for the next call
SplitReset ==
    /\ pc = "split"
    /\ call.made
    /\ week_events' = EmptyWeek
    /\ call' = NoCall
    /\ UNCHANGED <<cal, overrides, idx, per_day_seen, failed, pc>>

SplitNext == SplitCall \/ SplitReset

SplitSpec == SplitInit /\ [][SplitNext]_vars

(* ====================================================================== *)
(* Properties                                                              *)
(* ====================================================================== *)

\* indices of the components the expansion loop has finished
Processed == IF pc \in {"events", "done"} THEN 1 .. (idx - 1) ELSE {}

\* a master event whose try block reaches the expansion without raising at its head
WellFormedMaster(component) ==
    /\ component.recurrence_id = NoVal
    /\ Upper(component.status) # "CANCELLED"
    /\ component.dtstart # NoVal
    /\ component.rrule # "" => RuleParses(component.rrule)

DurationOf(component) == comp_end_utc(component) - to_utc(component.dtstart)

\* the tiles of the occurrence [start_utc, end_utc] of component, per week day
OccurrenceTiles(component, start_utc, end_utc, summary) ==
    split_event_across_days(EmptyWeek, component, utc_to_local(start_utc),
                            utc_to_local(end_utc), summary, valid_day_set)

\* every tile of that occurrence is in the week day's list
OccurrenceShown(component, start_utc, end_utc, summary) ==
    \A d \in week_days_local :
        \A k \in 1 .. Len(OccurrenceTiles(component, start_utc, end_utc, summary)[d]) :
            \E j \in 1 .. Len(week_events[d]) :
                week_events[d][j] = OccurrenceTiles(component, start_utc, end_utc, summary)[d][k]

\* the rule-generated instants of a recurring master that are not excluded
RetainedInstants(component) ==
    {t \in {rule_between(component.rrule, to_utc(component.dtstart), DurationOf(component))[k] :
               k \in 1 .. Len(rule_between(component.rrule, to_utc(component.dtstart),
                                           DurationOf(component)))} :
        t \notin exdates_utc(component)}

OverriddenInstants(component) == {k[2] : k \in {q \in DOMAIN overrides : q[1] = component.uid}}

\* C1: once a recurring master without overrides has been processed, every
\* rule-generated instant t of [start_of_week - pad, end_of_week] that is not
\* excluded has the tiles of the occurrence [t, t + duration] (its own dates,
\* its own clock times) in the week-day lists.
C1_RuleOccurrencesShown ==
    \A i \in Processed :
        (/\ WellFormedMaster(cal[i])
         /\ cal[i].rrule # ""
         /\ OverriddenInstants(cal[i]) = {})
        => \A t \in RetainedInstants(cal[i]) :
              OccurrenceShown(cal[i], t, t + DurationOf(cal[i]), summary_str(cal[i]))

\* C2: once a recurring master with one override instance matching a
\* rule-generated instant has been processed, the override's own occurrence is
\* shown and every other retained instant is shown with the master's summary
\* at that instant's clock time on that instant's date.
C2_OverrideAndOthersShown ==
    \A i \in Processed :
        (/\ WellFormedMaster(cal[i])
         /\ cal[i].rrule # ""
         /\ Cardinality(OverriddenInstants(cal[i])) = 1
         /\ OverriddenInstants(cal[i]) \subseteq RetainedInstants(cal[i]))
        => \A t \in RetainedInstants(cal[i]) :
              IF t \in OverriddenInstants(cal[i])
              THEN OccurrenceShown(overrides[<<cal[i].uid, t>>],
                                   to_utc(overrides[<<cal[i].uid, t>>].dtstart),
                                   comp_end_utc(overrides[<<cal[i].uid, t>>]),
                                   summary_str(overrides[<<cal[i].uid, t>>]))
              ELSE OccurrenceShown(cal[i], t, t + DurationOf(cal[i]), summary_str(cal[i]))

\* the week days on which the call of split_event_across_days left a tile
TileDates == {d \in week_days_local : Len(week_events[d]) > 0}

\* C3 (as claimed): for an all-day occurrence, or a timed one ending at local
\* 00:00 on a later date, tiles are on exactly the week days from the start
\* date to the end date minus one.
C3_ExclusiveEndEveryAllDay ==
    (/\ call.made
     /\ \/ is_all_day_component(call.component)
        \/ /\ TimeOf(call.end_local) = TimeMin
           /\ DateOf(call.end_local) > DateOf(call.start_local))
    => TileDates = {d \in week_days_local :
                       DateOf(call.start_local) <= d /\ d <= DateOf(call.end_local) - 1}

\* C3 (amended): for an occurrence whose local end is exactly 00:00 and that is
\* all-day or ends on a later date than it starts, tiles are on exactly the
\* week days from the start date to the end date minus one, one tile each, and
\* never on the end date.
C3_ExclusiveEnd ==
    (/\ call.made
     /\ TimeOf(call.end_local) = TimeMin
     /\ \/ is_all_day_component(call.component)
        \/ DateOf(call.end_local) > DateOf(call.start_local))
    => /\ TileDates = {d \in week_days_local :
                          DateOf(call.start_local) <= d /\ d <= DateOf(call.end_local) - 1}
       /\ \A d \in TileDates : Len(week_events[d]) = 1
       /\ DateOf(call.end_local) \notin TileDates

\* a timed Thursday-evening-to-Friday-00:00 shaped call: the day before the end has a
\* tile, the end date, a week day, has none
C3_Witness ==
    /\ call.made
    /\ ~is_all_day_component(call.component)
    /\ TimeOf(call.end_local) = TimeMin
    /\ DateOf(call.end_local) > DateOf(call.start_local)
    /\ DateOf(call.end_local) \in week_days_local
    /\ DateOf(call.end_local) - 1 \in week_days_local
    /\ Len(week_events[DateOf(call.end_local) - 1]) = 1
    /\ Len(week_events[DateOf(call.end_local)]) = 0

\* C4: no week day's list holds two tiles with the same lower-cased summary
\* and the same label.
C4_NoDuplicateTiles ==
    \A d \in week_days_local :
        \A i, j \in 1 .. Len(week_events[d]) :
            i < j => ~(/\ Lower(week_events[d][i].summary) = Lower(week_events[d][j].summary)
                       /\ week_events[d][i].time = week_events[d][j].time)

\* a is not after b in the order (all-day first, start instant, lower-cased summary)
NotAfter(a, b) ==
    \/ a.is_all_day /\ ~b.is_all_day
    \/ /\ a.is_all_day = b.is_all_day
       /\ \/ a.start_time < b.start_time
          \/ /\ a.start_time = b.start_time
             /\ StrRank(Lower(a.summary)) <= StrRank(Lower(b.summary))

\* C5: in every week day's final list each tile is not after any later tile in
\* the order (not all-day, start instant, lower-cased summary); every all-day
\* tile precedes every timed tile.
C5_SortedLists ==
    pc = "done" =>
        \A d \in week_days_local :
            \A i, j \in 1 .. Len(week_events[d]) :
                i < j => /\ NotAfter(week_events[d][i], week_events[d][j])
                         /\ ~(~week_events[d][i].is_all_day /\ week_events[d][j].is_all_day)

\* the lists as appended, before the sort
AppendedLists ==
    walk_all(AggState(EmptyWeek, EmptySeen, FALSE), cal, collect_overrides(cal)).we

\* a final list with an all-day tile ahead of a timed one that the sort had to reorder
C5_Witness ==
    /\ pc = "done"
    /\ \E d \in week_days_local :
          /\ Len(week_events[d]) >= 2
          /\ week_events[d][1].is_all_day
          /\ ~week_events[d][Len(week_events[d])].is_all_day
          /\ ~AppendedLists[d][1].is_all_day

RECURSIVE WithoutFailed(_, _, _)
WithoutFailed(c, i, F) ==
    IF i > Len(c) THEN <<>>
    ELSE (IF i \in F THEN <<>> ELSE <<c[i]>>) \o WithoutFailed(c, i + 1, F)

\* C6: the final lists are those of the same calendar with the components
\* whose processing raised removed (a failing event leaves no tile, the others
\* are processed as usual).
C6_FailedEventSkippedWhole ==
    pc = "done" => week_events = final_week(WithoutFailed(cal, 1, failed))

\* C7: a processed non-recurring all-day event with neither DTEND nor DURATION
\* whose date is a week day has a "Ganztaegig" tile on that date.
C7_AllDayNoEndOneTile ==
    \A i \in Processed :
        (/\ WellFormedMaster(cal[i])
         /\ cal[i].rrule = ""
         /\ is_all_day_component(cal[i])
         /\ cal[i].dtend = NoVal /\ cal[i].duration = NoDuration
         /\ DateOf(cal[i].dtstart.t) \in week_days_local)
        => \E k \in 1 .. Len(week_events[DateOf(cal[i].dtstart.t)]) :
              /\ week_events[DateOf(cal[i].dtstart.t)][k].summary = summary_str(cal[i])
              /\ week_events[DateOf(cal[i].dtstart.t)][k].time = AllDayLabel

\* last date a timed occurrence spanning several dates occupies
LastOccupied(start_local, end_local) ==
    IF TimeOf(end_local) = TimeMin THEN DateOf(end_local) - 1 ELSE DateOf(end_local)

\* C8: for a timed occurrence spanning more than one local date, the start
\* date's tile reads "HH:MM-00:00" when the end is 00:00 ("Ganztaegig" when the
\* start is 00:00 too) and "Start: HH:MM" otherwise; the last occupied date's
\* tile reads "Ende: HH:MM" when the end clock time is after 00:00; every other
\* tile reads "Ganztaegig"; the all-day flag is set exactly on "Ganztaegig".
C8_MultiDayLabels ==
    (/\ call.made
     /\ ~is_all_day_component(call.component)
     /\ DateOf(call.start_local) < DateOf(call.end_local))
    => \A d \in TileDates :
          /\ Len(week_events[d]) = 1
          /\ week_events[d][1].is_all_day = (week_events[d][1].time = "Ganztaegig")
          /\ week_events[d][1].time =
                IF d = DateOf(call.start_local)
                THEN (IF TimeOf(call.end_local) = 0
                      THEN (IF TimeOf(call.start_local) = 0 THEN "Ganztaegig"
                            ELSE FmtHM(call.start_local) \o "-00:00")
                      ELSE "Start: " \o FmtHM(call.start_local))
                ELSE IF d = LastOccupied(call.start_local, call.end_local)
                          /\ TimeOf(call.end_local) > 0
                     THEN "Ende: " \o FmtHM(call.end_local)
                ELSE "Ganztaegig"

\* Monday 10:00 to Thursday 20:15: "Start:", two "Ganztaegig" days, "Ende:"
C8_Witness ==
    /\ call.made
    /\ ~is_all_day_component(call.component)
    /\ call.start_local = H(0, 10, 0)
    /\ call.end_local = H(3, 20, 15)
    /\ week_events[0][1].time = "Start: 10:00"
    /\ week_events[1][1].time = "Ganztaegig" /\ week_events[1][1].is_all_day
    /\ week_events[3][1].time = "Ende: 20:15" /\ ~week_events[3][1].is_all_day

\* C9: once a well-formed, non-cancelled master has been processed, every
\* extra instant r (RDATE) that is not excluded has the tiles of the occurrence
\* [r, r + duration] with the master's summary in the week-day lists.
C9_ExtraInstantsShown ==
    \A i \in Processed :
        WellFormedMaster(cal[i])
        => \A k \in 1 .. Len(cal[i].rdate) :
              to_utc(cal[i].rdate[k]) \notin exdates_utc(cal[i])
              => OccurrenceShown(cal[i], to_utc(cal[i].rdate[k]),
                                 to_utc(cal[i].rdate[k]) + DurationOf(cal[i]),
                                 summary_str(cal[i]))

Permuted(c, f) == [i \in 1 .. Len(c) |-> c[f[i]]]

Orderings(n) == {f \in [1 .. n -> 1 .. n] : \A i, j \in 1 .. n : f[i] = f[j] => i = j}

\* C10: the final lists are the same for every order in which the components
\* of the calendar are processed.
C10_OrderIndependent ==
    pc = "done" =>
        \A f \in Orderings(Len(cal)) : final_week(Permuted(cal, f)) = week_events

====
